---------------------------- MODULE Spec2Model ----------------------------
(***************************************************************************)
(* A model of the dsbook chapters on unsupervised learning:                *)
(*   - the k-Means illustration script of cluster.ipynb (cell 2ce9cf71),   *)
(*     and the algorithm its prose describes (E-step, M-step, repeated     *)
(*     until the centers converge);                                        *)
(*   - the GMM E-step responsibilities of the comparison table;            *)
(*   - the rank-k reconstruction U_k S_k V_k^T of the autoencoder chapter; *)
(*   - the notebook kernel: which names each code cell reads and binds.    *)
(* Real numbers are exact rationals over the integers: a float64 value is  *)
(* modelled by the rational it approximates, and NaN by the value NaN.     *)
(***************************************************************************)
EXTENDS Integers, Sequences, FiniteSets, TLC

VARIABLES
    X,        \* the data array: a sequence of points (rows of X)
    centers,  \* the centers array: a sequence of K centers, <<>> before Step 1
    labels,   \* the variable labels: a sequence of labels, <<>> while unbound
    pc,       \* the statement of the k-Means script that runs next
    round,    \* which of the unrolled E/M rounds the script is in
    hist,     \* the values stored so far by E-steps (labels) and M-steps (centers)
    weights,  \* gmm.weights_: the mixing coefficients P_k, <<>> before fit
    dens,     \* N(x_n | mu_k, Sigma_k) of the point x_n being predicted
    gamma,    \* the row of probs for x_n: the responsibilities gamma_nk
    U, S, V,  \* the factors of X = U S V^T (S: the singular values)
    kTrunc,   \* k, the number of components the reconstruction keeps
    Xk,       \* the reconstruction U_k S_k V_k^T
    errs,     \* ||X - X_k||^2 for k = 1..kTrunc
    kernel,   \* the names bound in the notebook kernel
    order,    \* m: cells 1..m ran, in notebook order, since the kernel started
    alone,    \* the cell that ran, if exactly one ran since the kernel started
    raised    \* the name whose lookup raised NameError in the last cell run

kmVars == <<X, centers, labels, pc, round, hist>>
gmmVars == <<weights, dens, gamma>>
svdVars == <<U, S, V, kTrunc, Xk, errs>>
nbVars == <<kernel, order, alone, raised>>
vars == <<kmVars, gmmVars, svdVars, nbVars>>

----------------------------------------------------------------------------
(* Bounds of the model and constants of the program *)

NPoints == 5      \* rows of X (the script draws 300)
K == 2            \* clusters and mixture components (the notebook uses 5 and 4)
MaxWeight == 3    \* unnormalised mixing weights range over 1..MaxWeight
MaxDens == 3      \* density values range over 0..MaxDens
MaxSigma == 3     \* singular values range over 0..MaxSigma
Dim == 2          \* make_blobs' default n_features; the plots use X[:, 0], X[:, 1]
Rounds == 3       \* the script unrolls three E-steps and three M-steps

----------------------------------------------------------------------------
(* Integer and rational helpers *)

Abs(a) == IF a < 0 THEN -a ELSE a

RECURSIVE Gcd(_, _)
Gcd(a, b) == IF b = 0 THEN Abs(a) ELSE Gcd(b, a % b)

RECURSIVE SumSeq(_)
SumSeq(s) == IF s = <<>> THEN 0 ELSE Head(s) + SumSeq(Tail(s))

RECURSIVE GcdSeq(_)
GcdSeq(s) == IF s = <<>> THEN 0 ELSE Gcd(Head(s), GcdSeq(Tail(s)))

----------------------------------------------------------------------------
(* Data: X of make_blobs, NPoints rows drawn from a pool of grid points.    *)
(* k-Means does not depend on the order of the rows, so the rows are taken  *)
(* in the order of the pool; equal rows are allowed.                        *)

Pool == << <<0, 0>>, <<1, 0>>, <<0, 1>>, <<1, 1>>, <<0, 2>>, <<3, 3>> >>

RECURSIVE SortedArrays(_, _)
SortedArrays(n, lo) ==
    IF n = 0 THEN {<<>>}
    ELSE UNION {{<<Pool[p]>> \o s : s \in SortedArrays(n - 1, p)} : p \in lo..Len(Pool)}

DataSets == SortedArrays(NPoints, 1)

----------------------------------------------------------------------------
(* Centers: a float row is a rational vector num/den in lowest terms, or NaN *)

\* NaN: a row that is not a number (no numerator, denominator 0)
NaN == [num |-> <<>>, den |-> 0]

Reduce(num, den) ==
    LET g == Gcd(GcdSeq(num), den)
    IN  [num |-> [d \in 1..Len(num) |-> num[d] \div g], den |-> den \div g]

Row(p) == [num |-> p, den |-> 1]

\* X[labels == i]: the indices of the rows labelled i
Members(lab, i) == {p \in 1..Len(lab) : lab[p] = i}

RECURSIVE SumRows(_, _, _)
SumRows(data, rows, d) ==
    IF rows = {} THEN 0
    ELSE LET p == CHOOSE q \in rows : TRUE
         IN  data[p][d] + SumRows(data, rows \ {p}, d)

\* X[labels == i].mean(0): the mean of an empty slice is NaN (numpy warns)
Mean(data, rows) ==
    IF rows = {} THEN NaN
    ELSE Reduce([d \in 1..Dim |-> SumRows(data, rows, d)], Cardinality(rows))

\* an M-step that averages the old center in with the rows of the cluster
NewCentersDamped(data, lab) ==
    [i \in 1..K |->
        LET rows == Members(lab, i - 1)
            old == centers[i]
        IN  IF old = NaN THEN NaN
            ELSE Reduce([d \in 1..Dim |-> old.num[d] + old.den * SumRows(data, rows, d)],
                        old.den * (Cardinality(rows) + 1))]

\* np.array([X[labels == i].mean(0) for i in range(K)])
NewCenters(data, lab) == [i \in 1..K |-> Mean(data, Members(lab, i - 1))]

----------------------------------------------------------------------------
(* pairwise_distances_argmin *)

\* the numerator of ||x - c||^2 over the denominator c.den^2
DistNum(x, c) == SumSeq([d \in 1..Dim |-> (c.den * x[d] - c.num[d]) * (c.den * x[d] - c.num[d])])

\* ||x - a||^2 < ||x - b||^2
Closer(x, a, b) == DistNum(x, a) * b.den * b.den < DistNum(x, b) * a.den * a.den

\* np.argmin over the row of distances: the first index of the minimum
RECURSIVE ArgMinFrom(_, _, _, _)
ArgMinFrom(x, cs, j, best) ==
    IF j > Len(cs) THEN best
    ELSE ArgMinFrom(x, cs, j + 1, IF Closer(x, cs[j], cs[best]) THEN j ELSE best)

HasNaN(cs) == \E i \in 1..Len(cs) : cs[i] = NaN

\* an argmin that finds no cluster (label K) for a point with two nearest centers
ArgMinStrict(x, cs) ==
    LET b == ArgMinFrom(x, cs, 2, 1)
    IN  IF \E j \in 1..Len(cs) : j # b /\ ~Closer(x, cs[b], cs[j]) THEN Len(cs) ELSE b - 1

\* the farthest center instead of the nearest
RECURSIVE ArgMaxFrom(_, _, _, _)
ArgMaxFrom(x, cs, j, best) ==
    IF j > Len(cs) THEN best
    ELSE ArgMaxFrom(x, cs, j + 1, IF Closer(x, cs[best], cs[j]) THEN j ELSE best)

ArgMax(x, cs) == ArgMaxFrom(x, cs, 2, 1) - 1

\* labels are 0-based, as in Python
ArgMin(x, cs) == ArgMinFrom(x, cs, 2, 1) - 1

\* the labels pairwise_distances_argmin(X, centers) returns (centers finite)
Assign(data, cs) == [p \in 1..Len(data) |-> ArgMin(data[p], cs)]

----------------------------------------------------------------------------
(* The other components at rest: each specification runs one component *)

KmIdle == X = <<>> /\ centers = <<>> /\ labels = <<>> /\ pc = "idle" /\ round = 0 /\ hist = <<>>

GmmIdle == weights = <<>> /\ dens = <<>> /\ gamma = <<>>

SvdIdle == U = <<>> /\ S = <<>> /\ V = <<>> /\ kTrunc = 0 /\ Xk = <<>> /\ errs = <<>>

NbIdle == kernel = {} /\ order = 0 /\ alone = 0 /\ raised = ""

----------------------------------------------------------------------------
(* The k-Means script of cell 2ce9cf71 *)

Stored(kind, val) == [step |-> kind, val |-> val]

Init ==
    /\ X \in DataSets
    /\ centers = <<>>
    /\ labels = <<>>
    /\ pc = "step1"
    /\ round = 1
    /\ hist = <<>>
    /\ GmmIdle /\ SvdIdle /\ NbIdle

\* i = rng.permutation(X.shape[0])[:K]; centers = X[i]
Step1 ==
    /\ pc = "step1"
    /\ \E i \in [1..K -> 1..Len(X)] :
          /\ \A a, b \in 1..K : a # b => i[a] # i[b]
          /\ centers' = [c \in 1..K |-> Row(X[i[c]])]
    /\ pc' = "plot0"
    /\ UNCHANGED <<X, labels, round, hist, gmmVars, svdVars, nbVars>>

\* a plot_kmeans_step that stores its labels in the caller's variable
DiscardedStoresLabels(lab, cs) == Assign(X, cs)

\* the caller's labels after plot_kmeans_step(...) whose result is discarded:
\* the function's labels is a local
DiscardedResult(lab, cs) == lab

\* plot_kmeans_step(X, centers, title) with its return value discarded;
\* pairwise_distances_argmin raises ValueError on a NaN center
PlotDiscarded(next, nextRound) ==
    IF HasNaN(centers)
    THEN /\ pc' = "raised"
         /\ UNCHANGED <<X, centers, labels, round, hist>>
    ELSE /\ pc' = next
         /\ round' = nextRound
         /\ labels' = DiscardedResult(labels, centers)
         /\ UNCHANGED <<X, centers, hist>>

PlotInit ==
    /\ pc = "plot0"
    /\ PlotDiscarded("E", round)
    /\ UNCHANGED <<gmmVars, svdVars, nbVars>>

\* labels = plot_kmeans_step(X, centers, "... E-Step ...")
EStep ==
    /\ pc = "E"
    /\ IF HasNaN(centers)
       THEN /\ pc' = "raised"
            /\ UNCHANGED <<X, centers, labels, round, hist>>
       ELSE LET new == Assign(X, centers)
            IN  /\ labels' = new
                /\ hist' = Append(hist, Stored("E", new))
                /\ pc' = "M"
                /\ UNCHANGED <<X, centers, round>>
    /\ UNCHANGED <<gmmVars, svdVars, nbVars>>

\* centers = np.array([X[labels == i].mean(0) for i in range(K)])
MStep ==
    /\ pc = "M"
    /\ LET new == NewCenters(X, labels)
       IN  /\ centers' = new
           /\ hist' = Append(hist, Stored("M", new))
    /\ pc' = "plotM"
    /\ UNCHANGED <<X, labels, round, gmmVars, svdVars, nbVars>>

\* the plot after an M-step; the script ends after the third
PlotAfterM ==
    /\ pc = "plotM"
    /\ IF round < Rounds
       THEN PlotDiscarded("E", round + 1)
       ELSE PlotDiscarded("done", round)
    /\ UNCHANGED <<gmmVars, svdVars, nbVars>>

Next == Step1 \/ PlotInit \/ EStep \/ MStep \/ PlotAfterM

Spec == Init /\ [][Next]_vars

----------------------------------------------------------------------------
(* The algorithm of the prose: "These steps are repeated until the cluster *)
(* centers converge."                                                       *)

\* the centers did not change (a NaN is equal to nothing)
SameCenters(old, new) == ~HasNaN(new) /\ old = new

\* the M-step of the repeated algorithm, and its test for convergence
MStepUntil ==
    /\ pc = "M"
    /\ LET new == NewCenters(X, labels)
       IN  /\ centers' = new
           /\ hist' = Append(hist, Stored("M", new))
           /\ pc' = IF SameCenters(centers, new) THEN "converged" ELSE "E"
    /\ UNCHANGED <<X, labels, round, gmmVars, svdVars, nbVars>>

NextRepeat == Step1 \/ PlotInit \/ EStep \/ MStepUntil

SpecRepeat == Init /\ [][NextRepeat]_vars /\ WF_vars(NextRepeat)

----------------------------------------------------------------------------
(* The GMM E-step of the comparison table:                                  *)
(*   gamma_nk = P_k N(x_n | mu_k, Sigma_k) / sum_j P_j N(x_n | mu_j, Sigma_j) *)
(* A real is a fraction n/d in lowest terms with d > 0; 0/0 is NaN.         *)

Frac(n, d) ==
    IF d = 0 THEN [n |-> 0, d |-> 0]
    ELSE LET g == Gcd(n, d)
             sgn == IF d < 0 THEN -1 ELSE 1
         IN  [n |-> sgn * (n \div g), d |-> sgn * (d \div g)]

FracNaN == [n |-> 0, d |-> 0]

IsNaN(a) == a.d = 0

AddFrac(a, b) == IF IsNaN(a) \/ IsNaN(b) THEN FracNaN ELSE Frac(a.n * b.d + b.n * a.d, a.d * b.d)

MulFrac(a, b) == IF IsNaN(a) \/ IsNaN(b) THEN FracNaN ELSE Frac(a.n * b.n, a.d * b.d)

\* a / b; x / 0 is not a number
DivFrac(a, b) == IF IsNaN(a) \/ IsNaN(b) \/ b.n = 0 THEN FracNaN ELSE Frac(a.n * b.d, a.d * b.n)

LeqFrac(a, b) == ~IsNaN(a) /\ ~IsNaN(b) /\ a.n * b.d <= b.n * a.d

RECURSIVE SumFracs(_)
SumFracs(s) == IF s = <<>> THEN Frac(0, 1) ELSE AddFrac(Head(s), SumFracs(Tail(s)))

\* the mixing coefficients P_k = N_k / N of integer weights: they sum to 1
Mixing(w) == [k \in 1..Len(w) |-> Frac(w[k], SumSeq(w))]

\* a denominator that leaves out the mixing coefficients
UnweightedEvidence(P, d) == SumFracs([j \in 1..Len(P) |-> Frac(d[j], 1)])

\* sum_j P_j N(x_n | mu_j, Sigma_j)
Evidence(P, d) == SumFracs([j \in 1..Len(P) |-> MulFrac(P[j], Frac(d[j], 1))])

\* the row gamma_n1 .. gamma_nK
Responsibilities(P, d) ==
    LET evidence == Evidence(P, d)
    IN  [k \in 1..Len(P) |-> DivFrac(MulFrac(P[k], Frac(d[k], 1)), evidence)]

InitGMM == KmIdle /\ GmmIdle /\ SvdIdle /\ NbIdle

\* gmm.fit(X): some mixing coefficients P_k > 0
GmmFit ==
    /\ \E w \in [1..K -> 1..MaxWeight] : weights' = Mixing(w)
    /\ dens' = <<>>
    /\ gamma' = <<>>
    /\ UNCHANGED <<kmVars, svdVars, nbVars>>

\* one row of probs = gmm.predict_proba(X): the point x_n has some densities
PredictProba ==
    /\ weights # <<>>
    /\ \E d \in [1..K -> 0..MaxDens] :
          /\ dens' = d
          /\ gamma' = Responsibilities(weights, d)
    /\ UNCHANGED <<weights, kmVars, svdVars, nbVars>>

NextGMM == GmmFit \/ PredictProba

SpecGMM == InitGMM /\ [][NextGMM]_vars

----------------------------------------------------------------------------
(* PCA as an autoencoder: X ~ U_k S_k V_k^T.                                *)
(* An orthogonal matrix is an integer matrix m with orthogonal columns of   *)
(* squared length n2: the matrix is m / sqrt(n2). The entries of X and X_k  *)
(* are kept times sqrt(U.n2 * V.n2), squared errors as fractions.           *)

Identity3 == [m |-> << <<1, 0, 0>>, <<0, 1, 0>>, <<0, 0, 1>> >>, n2 |-> 1]

Rotation345 == [m |-> << <<3, -4, 0>>, <<4, 3, 0>>, <<0, 0, 5>> >>, n2 |-> 25]

Reflection122 == [m |-> << <<1, 2, 2>>, <<2, 1, -2>>, <<2, -2, 1>> >>, n2 |-> 9]

Orthogonals == {Identity3, Rotation345, Reflection122}

Size == Len(Identity3.m)

\* np.linalg.svd returns the singular values sorted, largest first, none negative
SingularValues ==
    {s \in [1..Size -> 0..MaxSigma] : \A i \in 1..(Size - 1) : s[i] >= s[i + 1]}

\* X = U S V^T
DataMatrix(u, s, v) ==
    [i \in 1..Size |-> [j \in 1..Size |->
        SumSeq([t \in 1..Size |-> u.m[i][t] * s[t] * v.m[j][t]])]]

\* a reconstruction from the k-th component alone
OnlyComponent(u, s, v, k) ==
    [i \in 1..Size |-> [j \in 1..Size |->
        IF k = 0 THEN 0 ELSE u.m[i][k] * s[k] * v.m[j][k]]]

\* U_k S_k V_k^T: the top k columns of U and V and the top k singular values
Reconstruct(u, s, v, k) ==
    [i \in 1..Size |-> [j \in 1..Size |->
        SumSeq([t \in 1..k |-> u.m[i][t] * s[t] * v.m[j][t]])]]

\* ||A - B||^2 (Frobenius) of the scaled matrices
SquaredDistance(A, B) ==
    SumSeq([i \in 1..Size |->
        SumSeq([j \in 1..Size |-> (A[i][j] - B[i][j]) * (A[i][j] - B[i][j])])])

\* ||X - X_k||^2, where X = U S V^T
ReconstructionError(u, s, v, k) ==
    Frac(SquaredDistance(DataMatrix(u, s, v), Reconstruct(u, s, v, k)), u.n2 * v.n2)

\* the rank of X: its number of nonzero singular values
Rank(s) == Cardinality({i \in 1..Len(s) : s[i] # 0})

InitSVD ==
    /\ U \in Orthogonals
    /\ V \in Orthogonals
    /\ S \in SingularValues
    /\ kTrunc = 0
    /\ Xk = Reconstruct(U, S, V, 0)
    /\ errs = <<>>
    /\ KmIdle /\ GmmIdle /\ NbIdle

\* keep one more component: k + 1
Truncate ==
    /\ kTrunc < Size
    /\ kTrunc' = kTrunc + 1
    /\ Xk' = Reconstruct(U, S, V, kTrunc')
    /\ errs' = Append(errs, ReconstructionError(U, S, V, kTrunc'))
    /\ UNCHANGED <<U, S, V, kmVars, gmmVars, nbVars>>

NextSVD == Truncate

SpecSVD == InitSVD /\ [][NextSVD]_vars

----------------------------------------------------------------------------
(* The notebook kernel: the global names each code cell reads and binds.    *)
(* A statement reads its names first (a missing one raises NameError and    *)
(* ends the cell), then binds. A call of a function defined in the notebook *)
(* also reads the globals of the function's body.                           *)

St(reads, binds) == [reads |-> reads, binds |-> binds]

\* the globals the body of plot_kmeans_step reads
PlotKmeansStepBody == <<"pairwise_distances_argmin", "plt", "sns">>

\* the globals the bodies of plot_gmm and of draw_ellipse, which it calls, read
PlotGmmBody == <<"plt", "draw_ellipse", "np", "Ellipse">>

PlotStep == St(<<"plot_kmeans_step", "X", "centers">> \o PlotKmeansStepBody, {})

EStepSt == St(<<"plot_kmeans_step", "X", "centers">> \o PlotKmeansStepBody, {"labels"})

MStepSt == St(<<"np", "X", "labels">>, {"centers"})

Scatter == St(<<"plt", "X", "labels">>, {})

PltCall == St(<<"plt">>, {})

\* cell 2ce9cf71: the k-Means illustration
Cell1 == <<
    St(<<>>, {"np"}), St(<<>>, {"pairwise_distances_argmin"}), St(<<>>, {"make_blobs"}),
    St(<<>>, {"sns"}), St(<<>>, {"plt"}),
    St(<<"make_blobs">>, {"X", "y_true"}), St(<<"sns", "X">>, {}), PltCall,
    St(<<>>, {"plot_kmeans_step"}),
    St(<<"np">>, {"rng"}), St(<<"rng", "X">>, {"i"}), St(<<"X", "i">>, {"centers"}), PlotStep,
    EStepSt, MStepSt, PlotStep,
    EStepSt, MStepSt, PlotStep,
    EStepSt, MStepSt, PlotStep >>

\* cell c6853344: KMeans(3) on X
Cell2 == <<
    St(<<>>, {"KMeans"}), St(<<"KMeans", "X">>, {"labels"}), Scatter, PltCall >>

\* cell 62ad9948: the two moons
Cell3 == <<
    St(<<>>, {"make_moons"}), St(<<"make_moons">>, {"X", "y"}),
    St(<<"KMeans", "X">>, {"labels"}), Scatter, PltCall >>

\* cell c3ac760f: blobs of different sizes
Cell4 == <<
    St(<<>>, {"n_samples"}), St(<<>>, {"centers"}), St(<<>>, {"cluster_std"}),
    St(<<"make_blobs", "n_samples", "centers", "cluster_std">>, {"X", "y"}),
    St(<<"KMeans", "X">>, {"labels"}), St(<<>>, {"markers"}), PltCall,
    St(<<>>, {"i"}), St(<<"plt", "X", "y", "i", "markers">>, {}),
    Scatter, PltCall, PltCall, PltCall, PltCall, PltCall, PltCall >>

\* cell 332af971: the data of the GMM illustration
Cell5 == <<
    St(<<>>, {"make_blobs"}), St(<<>>, {"plt"}),
    St(<<"make_blobs">>, {"X", "y_true"}), St(<<"X">>, {"X"}),
    St(<<"plt", "X">>, {}), PltCall, PltCall >>

\* cell 6a71fecf: k-Means on that data
Cell6 == <<
    St(<<>>, {"KMeans"}), St(<<"KMeans">>, {"kmeans"}), St(<<"kmeans", "X">>, {"labels"}),
    Scatter, PltCall, PltCall >>

\* cell 80f5fa89: the Gaussian mixture
Cell7 == <<
    St(<<>>, {"GaussianMixture"}), St(<<"GaussianMixture">>, {"gmm"}),
    St(<<"gmm", "X">>, {"labels"}), Scatter, PltCall, PltCall >>

\* cell bc039b2c: probs = gmm.predict_proba(X)
Cell8 == <<
    St(<<"gmm", "X">>, {"probs"}), St(<<"probs">>, {"size"}),
    St(<<"plt", "X", "labels", "size">>, {}), PltCall, PltCall >>

\* cell 48db8ef9: the ellipses
Cell9 == <<
    St(<<>>, {"Ellipse"}), St(<<>>, {"np"}), St(<<>>, {"draw_ellipse"}), St(<<>>, {"plot_gmm"}),
    St(<<"GaussianMixture">>, {"gmm"}),
    St(<<"plot_gmm", "gmm", "X">> \o PlotGmmBody, {}), PltCall, PltCall >>

\* the notebook with cell bc039b2c placed before cell 80f5fa89
CellsSwapped == <<Cell1, Cell2, Cell3, Cell4, Cell5, Cell6, Cell8, Cell7, Cell9>>

\* the code cells, in notebook order
Cells == <<Cell1, Cell2, Cell3, Cell4, Cell5, Cell6, Cell7, Cell8, Cell9>>

\* the kernel after the statements, and the name that raised NameError ("": none)
RECURSIVE FirstMissing(_, _)
FirstMissing(reads, env) ==
    IF reads = <<>> THEN ""
    ELSE IF Head(reads) \notin env THEN Head(reads)
    ELSE FirstMissing(Tail(reads), env)

RECURSIVE Exec(_, _)
Exec(stmts, env) ==
    LET missing == IF stmts = <<>> THEN "" ELSE FirstMissing(Head(stmts).reads, env)
    IN  IF stmts = <<>> \/ missing # "" THEN [env |-> env, err |-> missing]
        ELSE Exec(Tail(stmts), env \cup Head(stmts).binds)

InitNB == KmIdle /\ GmmIdle /\ SvdIdle /\ NbIdle

\* run cell c in the kernel as it is
RunCell(c) ==
    LET r == Exec(Cells[c], kernel)
    IN  /\ kernel' = r.env
        /\ raised' = r.err
        /\ alone' = IF kernel = {} /\ order = 0 /\ alone = 0 THEN c ELSE -1
        /\ order' = IF order = c - 1 THEN c ELSE -1
        /\ UNCHANGED <<kmVars, gmmVars, svdVars>>

\* restart the kernel: no name is bound
Restart ==
    /\ kernel' = {}
    /\ order' = 0
    /\ alone' = 0
    /\ raised' = ""
    /\ UNCHANGED <<kmVars, gmmVars, svdVars>>

NextNB == (\E c \in 1..Len(Cells) : RunCell(c)) \/ Restart

SpecNB == InitNB /\ [][NextNB]_vars

----------------------------------------------------------------------------
(* Properties *)

Zero == Frac(0, 1)

One == Frac(1, 1)

\* S_i: the rows labelled i
Cluster(i) == Members(labels, i)

\* x is as near to center a as to center b
Equidistant(x, a, b) == ~Closer(x, a, b) /\ ~Closer(x, b, a)

\* C1: for every point whose densities are not all zero, the responsibilities
\* gamma_n1..gamma_nK sum to exactly 1, and each lies in [0, 1].
GmmRowSumsToOne ==
    (gamma # <<>> /\ \E k \in 1..Len(dens) : dens[k] # 0) =>
        /\ SumFracs(gamma) = One
        /\ \A k \in 1..Len(gamma) : LeqFrac(Zero, gamma[k]) /\ LeqFrac(gamma[k], One)

\* a row with unequal mixing coefficients and a responsibility strictly inside (0, 1)
GmmRowWitness ==
    /\ gamma # <<>>
    /\ \E j, k \in 1..Len(weights) : weights[j] # weights[k]
    /\ \E k \in 1..Len(gamma) : gamma[k] # Zero /\ gamma[k] # One /\ ~IsNaN(gamma[k])
    /\ SumFracs(gamma) = One

\* C2: the reconstruction error does not grow as k grows from 1 to the full
\* rank, and it is 0 from the rank of X on.
ErrorDecreasesWithK ==
    /\ \A k \in 1..(Len(errs) - 1) : LeqFrac(errs[k + 1], errs[k])
    /\ \A k \in 1..Len(errs) : k >= Rank(S) => errs[k] = Zero

\* every component kept, each one lowering the error, U and V not the identity
ErrorDecreasesWitness ==
    /\ kTrunc = Size
    /\ Len(errs) = Size
    /\ U # Identity3 /\ V # Identity3 /\ U # V
    /\ \A k \in 1..(Size - 1) : errs[k + 1] # errs[k]
    /\ errs[Size] = Zero

\* C3 as stated: a cell run on its own in a fresh kernel reads no unbound name.
CellsSelfContained == alone >= 1 => raised = ""

\* the name whose lookup fails when the cell is the first run in a fresh kernel
MissingAlone == <<"", "X", "KMeans", "make_blobs", "", "X", "X", "gmm", "GaussianMixture">>

\* C3 as amended: run in notebook order from a fresh kernel no cell reads an
\* unbound name; run on its own, only cells 2ce9cf71 and 332af971 do not.
CellsRunInOrder ==
    /\ order >= 1 => raised = ""
    /\ alone >= 1 => raised = MissingAlone[alone]

\* the whole notebook ran in order
CellsRunInOrderWitness == order = Len(Cells) /\ raised = "" /\ "probs" \in kernel

\* C4: after every E-step every row carries exactly one label in 0..K-1: the
\* sets S_0..S_{K-1} are pairwise disjoint and cover the data, ties included.
HardClustering ==
    pc = "M" =>
        /\ Len(labels) = Len(X)
        /\ \A p \in 1..Len(X) : labels[p] \in 0..(K - 1)
        /\ \A p \in 1..Len(X) : Cardinality({i \in 0..(K - 1) : p \in Cluster(i)}) = 1
        /\ UNION {Cluster(i) : i \in 0..(K - 1)} = 1..Len(X)

\* an E-step has labelled a row that two different centers are both nearest to
HardClusteringWitness ==
    /\ pc = "M"
    /\ \E p \in 1..Len(X) : \E j \in 1..K :
          /\ j # labels[p] + 1
          /\ centers[j] # centers[labels[p] + 1]
          /\ Equidistant(X[p], centers[j], centers[labels[p] + 1])

\* C5: after every E-step every row is labelled with a nearest center of the
\* centers array passed to that E-step.
NearestCenter ==
    pc = "M" =>
        \A p \in 1..Len(X) : \A j \in 1..K :
            ~Closer(X[p], centers[j], centers[labels[p] + 1])

\* a later E-step, on centers that are means (not rows), using every label
NearestCenterWitness ==
    /\ pc = "M"
    /\ round > 1
    /\ \E j \in 1..K : centers[j].den > 1
    /\ \A i \in 0..(K - 1) : Cluster(i) # {}

RepeatEnded == pc \notin {"step1", "plot0", "E", "M"}

StableLabelsAreFixedPoint ==
    \A e \in 3..Len(hist) :
        (hist[e].step = "E" /\ hist[e].val = hist[e - 2].val) =>
            \A u \in (e + 1)..Len(hist) : hist[u].val = hist[u - 2].val

\* the second E-step repeated the labels of the first, and the script ran on
StableLabelsWitness ==
    /\ pc = "done"
    /\ Len(hist) = 2 * Rounds
    /\ hist[3].val = hist[1].val
    /\ hist[1].val # [p \in 1..Len(X) |-> 0]

\* C9: the script stores E, M, E, M, E, M; each M-step uses the labels of the
\* E-step before it, each later E-step the centers of the M-step before it;
\* the plots whose result is discarded leave labels alone, so at the end
\* labels is the assignment to the centers before the third M-step.
ScriptAlternates ==
    /\ Len(hist) <= 2 * Rounds
    /\ pc = "done" => Len(hist) = 2 * Rounds
    /\ \A t \in 1..Len(hist) : hist[t].step = (IF t % 2 = 1 THEN "E" ELSE "M")
    /\ \A t \in 2..Len(hist) :
          hist[t].val = (IF t % 2 = 0 THEN NewCenters(X, hist[t - 1].val)
                         ELSE Assign(X, hist[t - 1].val))
    /\ labels = (IF hist = <<>> THEN <<>>
                 ELSE hist[Len(hist) - (IF Len(hist) % 2 = 1 THEN 0 ELSE 1)].val)
    /\ pc = "done" => labels = Assign(X, hist[2 * Rounds - 2].val)

\* at the end labels is not the assignment to the final centers
ScriptAlternatesWitness ==
    /\ pc = "done"
    /\ Len(hist) = 2 * Rounds
    /\ labels # Assign(X, centers)

=============================================================================
